---- MODULE Spec2Model ----
(***************************************************************************)
(* The MadMiner setup tutorial, examples/tutorial_particle_physics/         *)
(* 1_setup.ipynb: a MadMiner configuration object (parameters, benchmarks, *)
(* morphing setup) built by add_parameter, add_benchmark and set_morphing, *)
(* plotted, and saved to data/setup.h5.                                    *)
(*                                                                         *)
(* A session is one of two kinds:                                          *)
(*   a run    the notebook run top to bottom, one step per statement, with *)
(*            the literal arguments of its cells (pc >= 1);                *)
(*   a use    the library calls the notebook makes, applied in any order   *)
(*            to arguments drawn from small sets (pc = 0).                 *)
(*                                                                         *)
(* Parameter values are fixed-point numbers in units of 1/10 (15.2 is 152, *)
(* the range (-20., 20.) is <<-200, 200>>).  The random draws of the basis *)
(* optimization are a nondeterministic choice of points on a grid of the   *)
(* parameter ranges.  The morphing matrix, a function of the components    *)
(* and of the basis, is not represented.                                   *)
(*                                                                         *)
(* Spec is the run and the use.  Session is the notebook in interactive    *)
(* use: the cells run top to bottom, and between two cell executions the   *)
(* user may execute a cell of their choice, again or out of order.         *)
(***************************************************************************)
EXTENDS Integers, Sequences, FiniteSets, TLC

VARIABLES
    pc,      \* the statement a notebook run executes next (0: no run)
    trace,   \* the statements executed so far, in order
    env,     \* the session: what is imported, configured, bound, plotted
    miner,   \* the MadMiner object bound to the name miner
    file,    \* the content of data/setup.h5
    saved,   \* the configuration as it stood at the last save
    last,    \* the last library call: its name, outcome, log line, output
    calls    \* the calls counted against the bounds of the model

vars == <<pc, trace, env, miner, file, saved, last, calls>>

(***************************************************************************)
(* Bounds of the model.                                                    *)
(***************************************************************************)
\* subdivisions of a parameter range from which the optimizer draws
GridN == 1
\* benchmarks the configuration holds at most when add_benchmark is drawn
MaxBenchmarks == 2
\* new basis points a drawn call of set_morphing has the optimization fix
MaxNew == 2
\* calls that change the configuration after a save, before the next load
MaxSinceSave == 1
\* cells the user executes out of order in a session
MaxJumps == 1

(***************************************************************************)
(* Helpers.                                                                *)
(***************************************************************************)
Range(s) == {s[i] : i \in DOMAIN s}

RECURSIVE Sum(_)
Sum(s) == IF s = <<>> THEN 0 ELSE Head(s) + Sum(Tail(s))

IsPrefix(s, t) == Len(s) <= Len(t) /\ SubSeq(t, 1, Len(s)) = s

(***************************************************************************)
(* The MadMiner object.                                                    *)
(***************************************************************************)
NoMorpher == [active |-> FALSE, components |-> <<>>, basis |-> <<>>]

\* miner = MadMiner()
MadMiner == [parameters |-> <<>>, benchmarks |-> <<>>, morpher |-> NoMorpher]

parameter_names(m) == [i \in 1..Len(m.parameters) |-> m.parameters[i].name]

benchmark_names(m) == [i \in 1..Len(m.benchmarks) |-> m.benchmarks[i].name]

Returned(m) == [ok |-> TRUE, miner |-> m]

Raised(m) == [ok |-> FALSE, miner |-> m]

\* miner.add_parameter(lha_block, lha_id, parameter_name, morphing_max_power,
\*                     param_card_transform, parameter_range)
add_parameter(m, p) ==
    IF p.name \in Range(parameter_names(m))
    THEN Raised(m)
    ELSE Returned([m EXCEPT
            !.parameters = Append(@,
                [name |-> p.name,
                 lha_block |-> p.lha_block,
                 lha_id |-> p.lha_id,
                 morphing_max_power |-> <<p.morphing_max_power>>,
                 parameter_range |-> p.parameter_range,
                 param_card_transform |-> p.param_card_transform]),
            !.morpher = NoMorpher])

\* miner.add_benchmark(parameter_values, benchmark_name)
add_benchmark(m, parameter_values, benchmark_name) ==
    IF \/ DOMAIN parameter_values # Range(parameter_names(m))
       \/ benchmark_name \in Range(benchmark_names(m))
    THEN Raised(m)
    ELSE Returned([m EXCEPT
            !.benchmarks = Append(@,
                [name |-> benchmark_name, values |-> parameter_values])])

(***************************************************************************)
(* Morphing.                                                               *)
(***************************************************************************)
\* itertools.product(range(p1 + 1), range(p2 + 1), ...), in its order
RECURSIVE product(_)
product(max_powers) ==
    IF max_powers = <<>>
    THEN << <<>> >>
    ELSE LET rest == product(Tail(max_powers))
             n == Len(rest)
         IN  [i \in 1..((Head(max_powers) + 1) * n) |->
                 <<(i - 1) \div n>> \o rest[((i - 1) % n) + 1]]

within_overall_power(powers, max_overall_power) ==
    Sum(powers) <= max_overall_power

\* the morphing components: the exponent vectors of the monomials
find_components(max_powers, max_overall_power) ==
    SelectSeq(product(max_powers),
              LAMBDA powers : within_overall_power(powers, max_overall_power))

parameter_max_power(m) ==
    [i \in 1..Len(m.parameters) |-> m.parameters[i].morphing_max_power[1]]

\* the values the optimizer may draw for one parameter
grid(parameter_range) ==
    LET lo == parameter_range[1]
        hi == parameter_range[2]
    IN  {lo + ((k * (hi - lo)) \div GridN) : k \in 0..GridN}

\* the points (parameter name -> value) the optimizer may draw
random_points(m) ==
    LET names == Range(parameter_names(m))
        rng(n) == (CHOOSE i \in 1..Len(m.parameters) :
                      m.parameters[i].name = n)
    IN  {pt \in [names -> UNION {grid(m.parameters[i].parameter_range) :
                                    i \in 1..Len(m.parameters)}] :
            \A n \in names :
                pt[n] \in grid(m.parameters[rng(n)].parameter_range)}

\* the names of the points the optimization adds, by position in the basis;
\* they differ from every name a caller gives
MorphingBasisVectorNames ==
    << "morphing_basis_vector_0", "morphing_basis_vector_1",
       "morphing_basis_vector_2", "morphing_basis_vector_3",
       "morphing_basis_vector_4", "morphing_basis_vector_5",
       "morphing_basis_vector_6", "morphing_basis_vector_7",
       "morphing_basis_vector_8", "morphing_basis_vector_9" >>

basis_vector_name(i) == MorphingBasisVectorNames[i + 1]

\* the flag ignored: the existing benchmarks are always kept
fixed_benchmarks_always(m, include_existing_benchmarks) == m.benchmarks

\* the benchmarks kept as fixed basis points
fixed_benchmarks(m, include_existing_benchmarks) ==
    IF include_existing_benchmarks THEN m.benchmarks ELSE <<>>

\* the basis: the fixed benchmarks, then the drawn points, named by position
optimize_basis(fixed, draw) ==
    fixed \o [i \in 1..Len(draw) |->
                 [name |-> basis_vector_name(Len(fixed) + i - 1),
                  values |-> draw[i]]]

\* off by one: a basis already complete is refused
too_many_fixed_or_equal(fixed, components) == Len(fixed) >= Len(components)

\* more benchmarks are to be kept than the basis has points
too_many_fixed(fixed, components) == Len(fixed) > Len(components)

\* miner.set_morphing(include_existing_benchmarks, max_overall_power), with
\* draw the points the optimization settles on (one per missing basis point)
set_morphing(m, include_existing_benchmarks, max_overall_power, draw) ==
    LET components == find_components(parameter_max_power(m), max_overall_power)
        fixed == fixed_benchmarks(m, include_existing_benchmarks)
        basis == optimize_basis(fixed, draw)
    IN  IF \/ too_many_fixed(fixed, components)
           \/ Len(draw) # Len(components) - Len(fixed)
        THEN Raised(m)
        ELSE Returned([m EXCEPT
                !.benchmarks = basis,
                !.morpher = [active |-> TRUE,
                             components |-> components,
                             basis |-> [i \in 1..Len(basis) |-> basis[i].name]]])

\* the number of points set_morphing has the optimization draw
n_missing(m, include_existing_benchmarks, max_overall_power) ==
    LET n == Len(find_components(parameter_max_power(m), max_overall_power))
        k == Len(fixed_benchmarks(m, include_existing_benchmarks))
    IN  IF k > n THEN 0 ELSE n - k

(***************************************************************************)
(* Persistence: the file holds the configuration as tables, one column per *)
(* attribute, and the benchmark values as a matrix in parameter order.     *)
(***************************************************************************)
NoFile ==
    [exists |-> FALSE,
     parameter_names |-> <<>>, parameter_lha_blocks |-> <<>>,
     parameter_lha_ids |-> <<>>, parameter_max_power |-> <<>>,
     parameter_ranges |-> <<>>, parameter_transforms |-> <<>>,
     benchmark_names |-> <<>>, benchmark_values |-> <<>>,
     export_morphing |-> FALSE,
     morphing_components |-> <<>>, morphing_basis |-> <<>>]

\* the row written in the reverse of the parameter order
benchmark_row_reversed(m, b) ==
    [j \in 1..Len(m.parameters) |->
        b.values[m.parameters[Len(m.parameters) + 1 - j].name]]

\* one row of the benchmark matrix: the values in the order of the parameters
benchmark_row(m, b) ==
    [j \in 1..Len(m.parameters) |-> b.values[m.parameters[j].name]]

\* what miner.save(filename) writes
save_madminer_settings(m) ==
    LET n == Len(m.parameters)
    IN  [exists |-> TRUE,
         parameter_names |-> parameter_names(m),
         parameter_lha_blocks |-> [i \in 1..n |-> m.parameters[i].lha_block],
         parameter_lha_ids |-> [i \in 1..n |-> m.parameters[i].lha_id],
         parameter_max_power |->
             [i \in 1..n |-> m.parameters[i].morphing_max_power],
         parameter_ranges |-> [i \in 1..n |-> m.parameters[i].parameter_range],
         parameter_transforms |->
             [i \in 1..n |-> m.parameters[i].param_card_transform],
         benchmark_names |-> benchmark_names(m),
         benchmark_values |->
             [i \in 1..Len(m.benchmarks) |-> benchmark_row(m, m.benchmarks[i])],
         export_morphing |-> m.morpher.active,
         morphing_components |-> m.morpher.components,
         morphing_basis |-> m.morpher.basis]

\* one benchmark read back: its name and the mapping parameter name -> value
benchmark_from_row(f, i) ==
    [name |-> f.benchmark_names[i],
     values |-> [n \in Range(f.parameter_names) |->
                    f.benchmark_values[i][CHOOSE j \in 1..Len(f.parameter_names) :
                                              f.parameter_names[j] = n]]]

\* what miner.load(filename) reads
load_madminer_settings(f) ==
    [parameters |->
        [i \in 1..Len(f.parameter_names) |->
            [name |-> f.parameter_names[i],
             lha_block |-> f.parameter_lha_blocks[i],
             lha_id |-> f.parameter_lha_ids[i],
             morphing_max_power |-> f.parameter_max_power[i],
             parameter_range |-> f.parameter_ranges[i],
             param_card_transform |-> f.parameter_transforms[i]]],
     benchmarks |->
        [i \in 1..Len(f.benchmark_names) |-> benchmark_from_row(f, i)],
     morpher |->
        IF f.export_morphing
        THEN [active |-> TRUE,
              components |-> f.morphing_components,
              basis |-> f.morphing_basis]
        ELSE NoMorpher]

\* miner.save(filename): the new content of the file
save(m) == save_madminer_settings(m)

\* miner.load(filename)
load(m, f) == IF f.exists THEN Returned(load_madminer_settings(f)) ELSE Raised(m)

(***************************************************************************)
(* The param_card.  A transform is a python expression in theta; the ones  *)
(* the notebook names are products k*theta.  With theta in units of 1/10   *)
(* and k in units of 1/100, the value given to MadGraph is in units of     *)
(* 1/1000 (16.52 * 15.2 = 251.104 is 1652 * 152 = 251104).                 *)
(***************************************************************************)
\* the factor k of the expression k*theta; without a transform, 1
transform_factor(param_card_transform) ==
    CASE param_card_transform = "16.52*theta" -> 1652
      [] param_card_transform = "100*theta"   -> 10000
      [] OTHER                                -> 100

\* eval(param_card_transform) with theta bound to the internal value
param_card_value(param_card_transform, theta) ==
    transform_factor(param_card_transform) * theta

\* the entries of the param_card of benchmark b: one per parameter
param_card(m, b) ==
    [j \in 1..Len(m.parameters) |->
        [lha_block |-> m.parameters[j].lha_block,
         lha_id |-> m.parameters[j].lha_id,
         value |-> param_card_value(m.parameters[j].param_card_transform,
                                    b.values[m.parameters[j].name])]]

\* the param_cards of all benchmarks are written; the configuration stays
export_cards(m) ==
    [ok |-> TRUE, miner |-> m,
     param_cards |-> [i \in 1..Len(m.benchmarks) |-> param_card(m, m.benchmarks[i])]]

(***************************************************************************)
(* The record of the last library call and of the line it logged.          *)
(***************************************************************************)
Call(name, raised) ==
    [call |-> name, raised |-> raised, include_existing_benchmarks |-> FALSE,
     max_overall_power |-> 0,
     n_parameters |-> 0, n_components |-> 0, n_predefined |-> 0, n_new |-> 0,
     param_cards |-> <<>>]

\* "Set up morphing with %s parameters, %s morphing components,
\*  %s predefined basis points, and %s new basis points"
MorphingCall(m, include_existing_benchmarks, max_overall_power, res) ==
    LET n == Len(find_components(parameter_max_power(m), max_overall_power))
        k == Len(fixed_benchmarks(m, include_existing_benchmarks))
    IN  IF res.ok
        THEN [call |-> "set_morphing", raised |-> FALSE,
              include_existing_benchmarks |-> include_existing_benchmarks,
              max_overall_power |-> max_overall_power,
              n_parameters |-> Len(m.parameters), n_components |-> n,
              n_predefined |-> k, n_new |-> n - k, param_cards |-> <<>>]
        ELSE [Call("set_morphing", TRUE) EXCEPT
                 !.include_existing_benchmarks = include_existing_benchmarks,
                 !.max_overall_power = max_overall_power]

\* all sequences of n points the optimization may settle on
draws(m, n) == [1..n -> random_points(m)]

(***************************************************************************)
(* The notebook: its statements in cell order, with their arguments.       *)
(***************************************************************************)
\* the second call copied from the first, its lha_id not changed
Cell10ParametersSameId ==
    << [name |-> "CWL2", lha_block |-> "dim6", lha_id |-> 2,
        morphing_max_power |-> 2, param_card_transform |-> "16.52*theta",
        parameter_range |-> <<-200, 200>>],
       [name |-> "CPWL2", lha_block |-> "dim6", lha_id |-> 2,
        morphing_max_power |-> 2, param_card_transform |-> "16.52*theta",
        parameter_range |-> <<-200, 200>>] >>

\* the second range mistyped: (-20., 200.)
Cell10ParametersWideRange ==
    << [name |-> "CWL2", lha_block |-> "dim6", lha_id |-> 2,
        morphing_max_power |-> 2, param_card_transform |-> "16.52*theta",
        parameter_range |-> <<-200, 200>>],
       [name |-> "CPWL2", lha_block |-> "dim6", lha_id |-> 5,
        morphing_max_power |-> 2, param_card_transform |-> "16.52*theta",
        parameter_range |-> <<-200, 2000>>] >>

\* the transform of the text's example, 100*theta, in both calls
Cell10ParametersTransform100 ==
    << [name |-> "CWL2", lha_block |-> "dim6", lha_id |-> 2,
        morphing_max_power |-> 2, param_card_transform |-> "100*theta",
        parameter_range |-> <<-200, 200>>],
       [name |-> "CPWL2", lha_block |-> "dim6", lha_id |-> 5,
        morphing_max_power |-> 2, param_card_transform |-> "100*theta",
        parameter_range |-> <<-200, 200>>] >>

\* cell 10: the two add_parameter calls
Cell10Parameters ==
    << [name |-> "CWL2", lha_block |-> "dim6", lha_id |-> 2,
        morphing_max_power |-> 2, param_card_transform |-> "16.52*theta",
        parameter_range |-> <<-200, 200>>],
       [name |-> "CPWL2", lha_block |-> "dim6", lha_id |-> 5,
        morphing_max_power |-> 2, param_card_transform |-> "16.52*theta",
        parameter_range |-> <<-200, 200>>] >>

\* the sign of neg_w lost
Cell13BenchmarksSign ==
    << [name |-> "sm",     values |-> [CWL2 |-> 0,    CPWL2 |-> 0]],
       [name |-> "w",      values |-> [CWL2 |-> 152,  CPWL2 |-> 1]],
       [name |-> "neg_w",  values |-> [CWL2 |-> 154,  CPWL2 |-> 2]],
       [name |-> "ww",     values |-> [CWL2 |-> 3,    CPWL2 |-> 151]],
       [name |-> "neg_ww", values |-> [CWL2 |-> 4,    CPWL2 |-> -153]] >>

\* cell 13: the five add_benchmark calls
Cell13Benchmarks ==
    << [name |-> "sm",     values |-> [CWL2 |-> 0,    CPWL2 |-> 0]],
       [name |-> "w",      values |-> [CWL2 |-> 152,  CPWL2 |-> 1]],
       [name |-> "neg_w",  values |-> [CWL2 |-> -154, CPWL2 |-> 2]],
       [name |-> "ww",     values |-> [CWL2 |-> 3,    CPWL2 |-> 151]],
       [name |-> "neg_ww", values |-> [CWL2 |-> 4,    CPWL2 |-> -153]] >>

\* the flag dropped from the call
Cell16MorphingNotIncluding ==
    [include_existing_benchmarks |-> FALSE, max_overall_power |-> 2]

\* max_overall_power left at 4
Cell16MorphingPower4 ==
    [include_existing_benchmarks |-> TRUE, max_overall_power |-> 4]

\* cell 16: miner.set_morphing(include_existing_benchmarks=True, max_overall_power=2)
Cell16Morphing ==
    [include_existing_benchmarks |-> TRUE, max_overall_power |-> 2]

\* the last add_benchmark call of cell 13 left out
NotebookFourBenchmarks ==
    << [cell |-> 3,  call |-> "import",        arg |-> 0],
       [cell |-> 5,  call |-> "logging",       arg |-> 0],
       [cell |-> 10, call |-> "MadMiner",      arg |-> 0],
       [cell |-> 10, call |-> "add_parameter", arg |-> 1],
       [cell |-> 10, call |-> "add_parameter", arg |-> 2],
       [cell |-> 13, call |-> "add_benchmark", arg |-> 1],
       [cell |-> 13, call |-> "add_benchmark", arg |-> 2],
       [cell |-> 13, call |-> "add_benchmark", arg |-> 3],
       [cell |-> 13, call |-> "add_benchmark", arg |-> 4],
       [cell |-> 16, call |-> "set_morphing",  arg |-> 0],
       [cell |-> 18, call |-> "plot",          arg |-> 0],
       [cell |-> 22, call |-> "save",          arg |-> 0] >>

\* the save cell placed before the morphing cell
NotebookSaveFirst ==
    << [cell |-> 3,  call |-> "import",        arg |-> 0],
       [cell |-> 5,  call |-> "logging",       arg |-> 0],
       [cell |-> 10, call |-> "MadMiner",      arg |-> 0],
       [cell |-> 10, call |-> "add_parameter", arg |-> 1],
       [cell |-> 10, call |-> "add_parameter", arg |-> 2],
       [cell |-> 13, call |-> "add_benchmark", arg |-> 1],
       [cell |-> 13, call |-> "add_benchmark", arg |-> 2],
       [cell |-> 13, call |-> "add_benchmark", arg |-> 3],
       [cell |-> 13, call |-> "add_benchmark", arg |-> 4],
       [cell |-> 13, call |-> "add_benchmark", arg |-> 5],
       [cell |-> 22, call |-> "save",          arg |-> 0],
       [cell |-> 16, call |-> "set_morphing",  arg |-> 0],
       [cell |-> 18, call |-> "plot",          arg |-> 0] >>

\* the save cell placed before the plot cell
NotebookSaveBeforePlot ==
    << [cell |-> 3,  call |-> "import",        arg |-> 0],
       [cell |-> 5,  call |-> "logging",       arg |-> 0],
       [cell |-> 10, call |-> "MadMiner",      arg |-> 0],
       [cell |-> 10, call |-> "add_parameter", arg |-> 1],
       [cell |-> 10, call |-> "add_parameter", arg |-> 2],
       [cell |-> 13, call |-> "add_benchmark", arg |-> 1],
       [cell |-> 13, call |-> "add_benchmark", arg |-> 2],
       [cell |-> 13, call |-> "add_benchmark", arg |-> 3],
       [cell |-> 13, call |-> "add_benchmark", arg |-> 4],
       [cell |-> 13, call |-> "add_benchmark", arg |-> 5],
       [cell |-> 16, call |-> "set_morphing",  arg |-> 0],
       [cell |-> 22, call |-> "save",          arg |-> 0],
       [cell |-> 18, call |-> "plot",          arg |-> 0] >>

\* the statements of the code cells, top to bottom; arg indexes the call's
\* arguments in its cell
Notebook ==
    << [cell |-> 3,  call |-> "import",        arg |-> 0],
       [cell |-> 5,  call |-> "logging",       arg |-> 0],
       [cell |-> 10, call |-> "MadMiner",      arg |-> 0],
       [cell |-> 10, call |-> "add_parameter", arg |-> 1],
       [cell |-> 10, call |-> "add_parameter", arg |-> 2],
       [cell |-> 13, call |-> "add_benchmark", arg |-> 1],
       [cell |-> 13, call |-> "add_benchmark", arg |-> 2],
       [cell |-> 13, call |-> "add_benchmark", arg |-> 3],
       [cell |-> 13, call |-> "add_benchmark", arg |-> 4],
       [cell |-> 13, call |-> "add_benchmark", arg |-> 5],
       [cell |-> 16, call |-> "set_morphing",  arg |-> 0],
       [cell |-> 18, call |-> "plot",          arg |-> 0],
       [cell |-> 22, call |-> "save",          arg |-> 0] >>

NoCalls == [since_save |-> 0, jumps |-> 0]

NewSession ==
    [imported |-> FALSE, logging |-> FALSE, bound |-> FALSE, fig |-> FALSE,
     error |-> FALSE]

\* a session that catches the exception and goes on with the next statement
AtStatementAfterError(call) ==
    /\ pc \in 1..Len(Notebook)
    /\ Notebook[pc].call = call

\* the statement the run executes next
AtStatement(call) ==
    /\ ~env.error
    /\ pc \in 1..Len(Notebook)
    /\ Notebook[pc].call = call

\* the run moves on after a statement, or stops at the one that raised
Step(call, raised) ==
    /\ pc' = IF raised THEN pc ELSE pc + 1
    /\ trace' = Append(trace, call)
    /\ UNCHANGED calls

Done == pc = Len(Notebook) + 1

Cells == {Notebook[i].cell : i \in 1..Len(Notebook)}

\* the first statement of a cell
CellStart(c) ==
    CHOOSE i \in 1..Len(Notebook) :
        /\ Notebook[i].cell = c
        /\ i = 1 \/ Notebook[i - 1].cell # c

\* no cell is executing: the last one ran to its end, or stopped on an
\* exception
Idle ==
    \/ env.error
    \/ pc = 1
    \/ Done
    \/ pc \in 2..Len(Notebook) /\ Notebook[pc].cell # Notebook[pc - 1].cell

\* cell 3: the imports
RunImport ==
    /\ AtStatement("import")
    /\ Step("import", FALSE)
    /\ env' = [env EXCEPT !.imported = TRUE]
    /\ UNCHANGED <<miner, file, saved, last>>

\* cell 5: logging.basicConfig(...) and the levels of the other loggers
RunLogging ==
    /\ AtStatement("logging")
    /\ Step("logging", ~env.imported)
    /\ env' = [env EXCEPT !.logging = env.imported, !.error = ~env.imported]
    /\ UNCHANGED <<miner, file, saved, last>>

\* the cell without the rebinding: the name miner keeps its object
RunMadMinerKeeps ==
    /\ AtStatement("MadMiner")
    /\ Step("MadMiner", ~env.imported)
    /\ env' = [env EXCEPT !.bound = @ \/ env.imported, !.error = ~env.imported]
    /\ last' = Call("MadMiner", ~env.imported)
    /\ UNCHANGED <<miner, file, saved>>

\* cell 10: miner = MadMiner()
RunMadMiner ==
    /\ AtStatement("MadMiner")
    /\ Step("MadMiner", ~env.imported)
    /\ env' = [env EXCEPT !.bound = @ \/ env.imported, !.error = ~env.imported]
    /\ miner' = IF env.imported THEN MadMiner ELSE miner
    /\ last' = Call("MadMiner", ~env.imported)
    /\ UNCHANGED <<file, saved>>

\* the outcome of a method call on the name miner
Outcome(call, res) ==
    /\ Step(call, ~res.ok)
    /\ env' = [env EXCEPT !.error = ~res.ok]
    /\ miner' = res.miner

\* a method call on the name miner; unbound, the name raises NameError
OnMiner(res) == IF env.bound THEN res ELSE Raised(miner)

\* cell 10: miner.add_parameter(...)
RunAddParameter ==
    /\ AtStatement("add_parameter")
    /\ LET res == OnMiner(add_parameter(miner, Cell10Parameters[Notebook[pc].arg]))
       IN  /\ Outcome("add_parameter", res)
           /\ last' = Call("add_parameter", ~res.ok)
    /\ UNCHANGED <<file, saved>>

\* cell 13: miner.add_benchmark(...)
RunAddBenchmark ==
    /\ AtStatement("add_benchmark")
    /\ LET b == Cell13Benchmarks[Notebook[pc].arg]
           res == OnMiner(add_benchmark(miner, b.values, b.name))
       IN  /\ Outcome("add_benchmark", res)
           /\ last' = Call("add_benchmark", ~res.ok)
    /\ UNCHANGED <<file, saved>>

\* cell 16: miner.set_morphing(...)
RunSetMorphing ==
    /\ AtStatement("set_morphing")
    /\ LET inc == Cell16Morphing.include_existing_benchmarks
           mop == Cell16Morphing.max_overall_power
       IN  \E draw \in draws(miner, n_missing(miner, inc, mop)) :
               LET res == OnMiner(set_morphing(miner, inc, mop, draw))
               IN  /\ Outcome("set_morphing", res)
                   /\ last' = MorphingCall(miner, inc, mop, res)
    /\ UNCHANGED <<file, saved>>

\* cell 18: fig = plot_2d_morphing_basis(miner.morpher, ...)
RunPlot ==
    /\ AtStatement("plot")
    /\ LET ok == env.bound /\ miner.morpher.active
       IN  /\ Step("plot", ~ok)
           /\ env' = [env EXCEPT !.fig = ok, !.error = ~ok]
           /\ last' = Call("plot", ~ok)
    /\ UNCHANGED <<miner, file, saved>>

\* cell 22: miner.save('data/setup.h5')
RunSave ==
    /\ AtStatement("save")
    /\ Step("save", ~env.bound)
    /\ env' = [env EXCEPT !.error = ~env.bound]
    /\ file' = IF env.bound THEN save(miner) ELSE file
    /\ saved' = IF env.bound THEN miner ELSE saved
    /\ last' = Call("save", ~env.bound)
    /\ UNCHANGED miner

\* the user executes a cell of their choice, again or out of order; the
\* session goes on from that cell.  The morphing cell is chosen when the
\* optimization has at most MaxNew points to fix.
ExecuteCell ==
    /\ pc >= 1
    /\ Idle
    /\ calls.jumps < MaxJumps
    /\ \E c \in Cells :
           /\ (Notebook[CellStart(c)].call = "set_morphing" /\ env.bound) =>
                  n_missing(miner, Cell16Morphing.include_existing_benchmarks,
                            Cell16Morphing.max_overall_power) <= MaxNew
           /\ pc' = CellStart(c)
    /\ env' = [env EXCEPT !.error = FALSE]
    /\ calls' = [calls EXCEPT !.jumps = @ + 1]
    /\ UNCHANGED <<trace, miner, file, saved, last>>

InitRun ==
    /\ pc = 1
    /\ trace = <<>>
    /\ env = NewSession
    /\ miner = MadMiner
    /\ file = NoFile
    /\ saved = MadMiner
    /\ last = Call("none", FALSE)
    /\ calls = NoCalls

(***************************************************************************)
(* The library in use: a session that has run the imports and             *)
(* bound miner = MadMiner(), then calls the methods in any order with      *)
(* arguments drawn from small sets.  Parameters are defined before the     *)
(* benchmarks, whose mappings name them, and set_morphing is called on a   *)
(* configuration that has no morphing setup yet.                           *)
(***************************************************************************)
ParameterPool ==
    { [name |-> "CWL2", lha_block |-> "dim6", lha_id |-> 2,
       morphing_max_power |-> 2, param_card_transform |-> "16.52*theta",
       parameter_range |-> <<-1, 0>>],
      [name |-> "CPWL2", lha_block |-> "dim6", lha_id |-> 5,
       morphing_max_power |-> 1, param_card_transform |-> "100*theta",
       parameter_range |-> <<0, 1>>] }

ParameterNamePool == {p.name : p \in ParameterPool}

BenchmarkNamePool == {"sm", "w"}

\* values a caller passes for a parameter: inside and outside its range
BenchmarkValuePool == {0, 2}

OverallPowerPool == {1, 2, 4}

ApiSession ==
    [imported |-> TRUE, logging |-> TRUE, bound |-> TRUE, fig |-> FALSE,
     error |-> FALSE]

\* a call that changes the configuration, counted once a file is written
Changing ==
    /\ file.exists => calls.since_save < MaxSinceSave
    /\ calls' = [calls EXCEPT
                    !.since_save = IF file.exists THEN @ + 1 ELSE @]

ApiAddParameter ==
    /\ pc = 0
    /\ Len(miner.benchmarks) = 0
    /\ Changing
    /\ \E p \in ParameterPool :
           LET res == add_parameter(miner, p)
           IN  /\ miner' = res.miner
               /\ last' = Call("add_parameter", ~res.ok)
    /\ UNCHANGED <<pc, trace, env, file, saved>>

ApiAddBenchmark ==
    /\ pc = 0
    /\ Len(miner.benchmarks) < MaxBenchmarks
    /\ Changing
    /\ \E keys \in (SUBSET ParameterNamePool) \ {{}} :
       \E parameter_values \in [keys -> BenchmarkValuePool] :
       \E benchmark_name \in BenchmarkNamePool :
           LET res == add_benchmark(miner, parameter_values, benchmark_name)
           IN  /\ miner' = res.miner
               /\ last' = Call("add_benchmark", ~res.ok)
    /\ UNCHANGED <<pc, trace, env, file, saved>>

ApiSetMorphing ==
    /\ pc = 0
    /\ Len(miner.parameters) > 0
    /\ ~miner.morpher.active
    /\ Changing
    /\ \E inc \in BOOLEAN :
       \E mop \in OverallPowerPool :
           /\ n_missing(miner, inc, mop) <= MaxNew
           /\ \E draw \in draws(miner, n_missing(miner, inc, mop)) :
                  LET res == set_morphing(miner, inc, mop, draw)
                  IN  /\ miner' = res.miner
                      /\ last' = MorphingCall(miner, inc, mop, res)
    /\ UNCHANGED <<pc, trace, env, file, saved>>

ApiSave ==
    /\ pc = 0
    /\ file' = save(miner)
    /\ saved' = miner
    /\ last' = Call("save", FALSE)
    /\ calls' = [calls EXCEPT !.since_save = 0]
    /\ UNCHANGED <<pc, trace, env, miner>>

ApiLoad ==
    /\ pc = 0
    /\ LET res == load(miner, file)
       IN  /\ miner' = res.miner
           /\ last' = Call("load", ~res.ok)
           /\ calls' = [calls EXCEPT !.since_save = IF res.ok THEN 0 ELSE @]
    /\ UNCHANGED <<pc, trace, env, file, saved>>

\* the param_cards given to MadGraph are written from the configuration
ApiExportCards ==
    /\ pc = 0
    /\ Len(miner.benchmarks) > 0
    /\ LET res == export_cards(miner)
       IN  /\ miner' = res.miner
           /\ last' = [Call("export_cards", ~res.ok) EXCEPT
                          !.param_cards = res.param_cards]
    /\ UNCHANGED <<pc, trace, env, file, saved, calls>>

InitAPI ==
    /\ pc = 0
    /\ trace = <<>>
    /\ env = ApiSession
    /\ miner = MadMiner
    /\ file = NoFile
    /\ saved = MadMiner
    /\ last = Call("MadMiner", FALSE)
    /\ calls = NoCalls

Init == InitRun \/ InitAPI

Next ==
    \/ RunImport
    \/ RunLogging
    \/ RunMadMiner
    \/ RunAddParameter
    \/ RunAddBenchmark
    \/ RunSetMorphing
    \/ RunPlot
    \/ RunSave
    \/ ApiAddParameter
    \/ ApiAddBenchmark
    \/ ApiSetMorphing
    \/ ApiSave
    \/ ApiLoad
    \/ ApiExportCards

Spec == Init /\ [][Next]_vars

SessionNext ==
    \/ RunImport
    \/ RunLogging
    \/ RunMadMiner
    \/ RunAddParameter
    \/ RunAddBenchmark
    \/ RunSetMorphing
    \/ RunPlot
    \/ RunSave
    \/ ExecuteCell

Session == InitRun /\ [][SessionNext]_vars

(***************************************************************************)
(* Properties.                                                             *)
(***************************************************************************)
\* a notebook run, as opposed to a use of the library with drawn arguments
IsRun == pc >= 1

\* the statement at position i of the notebook has been executed
Executed(i) == IsRun /\ pc > i

MorphingNames == Range(MorphingBasisVectorNames)

\* the step just taken is a call of set_morphing that returned
SetMorphingReturned == last.call = "set_morphing" /\ ~last.raised

\* C1: round-trip persistence: a load that returns yields the configuration
\* that was saved: the same parameters, benchmarks and morphing setup.
C1_RoundTrip ==
    (last.call = "load" /\ ~last.raised) => miner = saved

\* C1 witness: a load has restored two parameters, a benchmark given by the
\* caller, a basis point added by set_morphing and the morphing setup.
C1_Witness ==
    /\ last.call = "load" /\ ~last.raised
    /\ Len(miner.parameters) = 2
    /\ miner.morpher.active
    /\ \E i, j \in 1..Len(miner.benchmarks) :
           /\ miner.benchmarks[i].name \in BenchmarkNamePool
           /\ miner.benchmarks[i].values["CWL2"] # miner.benchmarks[i].values["CPWL2"]
           /\ miner.benchmarks[j].name \in MorphingNames

\* C2: set_morphing with include_existing_benchmarks=True keeps every
\* benchmark defined beforehand, name and values, and only adds points; in
\* the notebook run the five benchmarks of cell 13 are kept.
C2_KeepsExisting ==
    [][/\ (SetMorphingReturned' /\ last'.include_existing_benchmarks) =>
            /\ Range(miner.benchmarks) \subseteq Range(miner'.benchmarks)
            /\ IsPrefix(miner.benchmarks, miner'.benchmarks)
            /\ Len(miner'.benchmarks) = Len(miner.benchmarks) + last'.n_new
       /\ (IsRun /\ SetMorphingReturned') =>
            /\ Len(miner.benchmarks) = 5
            /\ Range(miner.benchmarks) \subseteq Range(miner'.benchmarks)]_vars

\* C2 witness: set_morphing has returned in the notebook run, with the flag
\* set, five benchmarks kept and one added.
C2_Witness ==
    /\ IsRun /\ SetMorphingReturned
    /\ last.include_existing_benchmarks
    /\ last.n_predefined = 5 /\ last.n_new = 1
    /\ {"sm", "w", "neg_w", "ww", "neg_ww"} \subseteq Range(benchmark_names(miner))

\* C3: set_morphing without include_existing_benchmarks forgets the
\* benchmarks defined before: none of their names remains, and every basis
\* point is one fixed by the optimization.
C3_ForgetsExisting ==
    [][(SetMorphingReturned' /\ ~last'.include_existing_benchmarks) =>
          /\ Range(benchmark_names(miner)) \cap Range(benchmark_names(miner')) = {}
          /\ Range(benchmark_names(miner')) \subseteq MorphingNames
          /\ last'.n_predefined = 0
          /\ Len(miner'.benchmarks) = last'.n_new]_vars

\* C3 witness: the configuration was saved with a benchmark in it, and the one
\* call since is a set_morphing without the flag that returned.
C3_Witness ==
    /\ SetMorphingReturned /\ ~last.include_existing_benchmarks
    /\ file.exists /\ calls.since_save = 1
    /\ Len(saved.benchmarks) > 0
    /\ Len(miner.benchmarks) > 0

\* the exponent vectors with each exponent at most the parameter's maximal
\* power and the sum of the exponents at most the overall power
Monomials(max_powers, max_overall_power) ==
    LET n == Len(max_powers)
        total(e) == Sum([i \in 1..n |-> e[i]])
    IN  {e \in [1..n -> 0..max_overall_power] :
            /\ \A i \in 1..n : e[i] <= max_powers[i]
            /\ total(e) <= max_overall_power}

\* 1, a, a^2, b, b^2, ab
SixComponents ==
    {<<0, 0>>, <<1, 0>>, <<2, 0>>, <<0, 1>>, <<0, 2>>, <<1, 1>>}

\* a^2 b, a b^2, a^2 b^2
ThreeMoreComponents == {<<2, 1>>, <<1, 2>>, <<2, 2>>}

\* C4: the morphing components are exactly the monomials with each exponent
\* at most the parameter's morphing_max_power and the exponents' sum at most
\* max_overall_power; two parameters of maximal power 2 give the 6 components
\* 1, a, a^2, b, b^2, ab for max_overall_power=2 (the notebook's call) and
\* these plus a^2 b, a b^2, a^2 b^2 for max_overall_power=4.
C4_Components ==
    /\ SetMorphingReturned =>
          /\ Range(miner.morpher.components)
                 = Monomials(parameter_max_power(miner), last.max_overall_power)
          /\ Cardinality(Range(miner.morpher.components))
                 = Len(miner.morpher.components)
    /\ (IsRun /\ SetMorphingReturned) =>
          /\ parameter_max_power(miner) = <<2, 2>>
          /\ Range(miner.morpher.components) = SixComponents
          /\ Range(find_components(parameter_max_power(miner), 4))
                 = SixComponents \cup ThreeMoreComponents

\* C4 witness: set_morphing has returned in the notebook run with 6 components.
C4_Witness ==
    /\ IsRun /\ SetMorphingReturned
    /\ Len(miner.morpher.components) = 6
    /\ last.max_overall_power = 2

\* the benchmarks of m that carry a name given by the optimization
new_points(m) ==
    {i \in 1..Len(m.benchmarks) : m.benchmarks[i].name \in MorphingNames}

\* C5: after set_morphing has returned, the number of basis points equals the
\* number of morphing components and splits as predefined points plus new
\* points; in the notebook run 5 predefined + 1 new = 6 components, for 2
\* parameters.
C5_BasisSize ==
    /\ SetMorphingReturned =>
          /\ Len(miner.benchmarks) = Len(miner.morpher.components)
          /\ Len(miner.morpher.basis) = Len(miner.morpher.components)
          /\ last.n_components = Len(miner.morpher.components)
          /\ last.n_predefined + last.n_new = last.n_components
          /\ Cardinality(new_points(miner)) = last.n_new
          /\ ~last.include_existing_benchmarks => last.n_predefined = 0
    /\ (IsRun /\ SetMorphingReturned) =>
          /\ last.n_parameters = 2
          /\ last.n_components = 6
          /\ last.n_predefined = 5
          /\ last.n_new = 1

\* C5 witness: set_morphing has returned in the notebook run and the
\* configuration holds six benchmarks, one of them new.
C5_Witness ==
    /\ IsRun /\ SetMorphingReturned
    /\ Len(miner.benchmarks) = 6
    /\ Cardinality(new_points(miner)) = 1

\* C6: with include_existing_benchmarks=True and as many benchmarks defined
\* beforehand as there are morphing components, set_morphing returns and
\* adds no basis point.
C6_NoneMissing ==
    [][(/\ last'.call = "set_morphing"
        /\ last'.include_existing_benchmarks
        /\ Len(miner.benchmarks)
             = Len(find_components(parameter_max_power(miner),
                                   last'.max_overall_power))) =>
          /\ ~last'.raised
          /\ miner'.benchmarks = miner.benchmarks
          /\ last'.n_new = 0
          /\ miner'.morpher.active]_vars

\* C6 witness: set_morphing has returned with the flag set, all its basis
\* points predefined and none new.
C6_Witness ==
    /\ SetMorphingReturned /\ last.include_existing_benchmarks
    /\ last.n_new = 0
    /\ last.n_predefined = last.n_components
    /\ last.n_predefined > 0
    /\ new_points(miner) = {}

\* C7: every basis point added by the optimization has, for each parameter, a
\* value inside that parameter's parameter_range; in the notebook run
\* between -20 and 20 for CWL2 and for CPWL2.
C7_InRange ==
    \A i \in new_points(miner) :
        /\ \A j \in 1..Len(miner.parameters) :
              LET p == miner.parameters[j]
                  v == miner.benchmarks[i].values[p.name]
              IN  p.parameter_range[1] <= v /\ v <= p.parameter_range[2]
        /\ IsRun =>
              /\ miner.benchmarks[i].values["CWL2"] \in -200..200
              /\ miner.benchmarks[i].values["CPWL2"] \in -200..200

\* C7 witness: the notebook run holds a basis point added by the optimization.
C7_Witness ==
    /\ IsRun
    /\ \E i \in new_points(miner) :
           miner.benchmarks[i].name = "morphing_basis_vector_5"

\* the steps of a top-to-bottom run, in order
RunOrder ==
    << "import", "logging", "MadMiner", "add_parameter", "add_parameter",
       "add_benchmark", "add_benchmark", "add_benchmark", "add_benchmark",
       "add_benchmark", "set_morphing", "plot", "save" >>

\* C8: a top-to-bottom run performs its steps once each and in order:
\* configure logging, instantiate MadMiner, add the two parameters, add the
\* five benchmarks, set_morphing, plot, save; no benchmark is added before
\* both parameters exist, set_morphing runs after all five benchmarks are
\* added, and save runs last.
C8_RunOrder ==
    IsRun =>
        /\ ~env.error
        /\ IsPrefix(trace, RunOrder)
        /\ pc = Len(trace) + 1
        /\ Done => trace = RunOrder
        /\ Len(miner.benchmarks) > 0 => Len(miner.parameters) = 2
        /\ miner.morpher.active => Len(miner.benchmarks) >= 5
        /\ env.fig => miner.morpher.active
        /\ file.exists => (Done /\ env.fig /\ trace[Len(trace)] = "save")

\* C8 witness: the run is over and the file is written.
C8_Witness == IsRun /\ Done /\ file.exists /\ Len(trace) = 13

\* the parameters of m without their param_card_transform
registered(m) ==
    [i \in 1..Len(m.parameters) |->
        <<m.parameters[i].name, m.parameters[i].lha_block,
          m.parameters[i].lha_id, m.parameters[i].morphing_max_power,
          m.parameters[i].parameter_range>>]

\* C9: after the parameter cell the configuration holds exactly two
\* parameters, in registration order: CWL2 (dim6, 2) and CPWL2 (dim6, 5), each
\* with maximal power 2 and range (-20, 20); each add_parameter call adds one
\* parameter and leaves the earlier ones unchanged.
C9_Parameters ==
    [][/\ (last'.call = "add_parameter" /\ ~last'.raised) =>
            /\ Len(miner'.parameters) = Len(miner.parameters) + 1
            /\ IsPrefix(miner.parameters, miner'.parameters)
       /\ Executed(5)' =>
            registered(miner') = << <<"CWL2", "dim6", 2, <<2>>, <<-200, 200>> >>,
                                    <<"CPWL2", "dim6", 5, <<2>>, <<-200, 200>> >> >>
      ]_vars

\* C9 witness: the run has just left the parameter cell with two parameters.
C9_Witness ==
    /\ IsRun /\ pc = 6
    /\ last.call = "add_parameter" /\ ~last.raised
    /\ Len(miner.parameters) = 2

\* the benchmarks of m as name, CWL2 value, CPWL2 value
points(m) ==
    [i \in 1..Len(m.benchmarks) |->
        <<m.benchmarks[i].name, m.benchmarks[i].values["CWL2"],
          m.benchmarks[i].values["CPWL2"]>>]

FivePoints ==
    << <<"sm", 0, 0>>, <<"w", 152, 1>>, <<"neg_w", -154, 2>>,
       <<"ww", 3, 151>>, <<"neg_ww", 4, -153>> >>

\* C10: after the benchmark cell the configuration holds exactly five
\* benchmarks, in the order sm, w, neg_w, ww, neg_ww, each mapping CWL2 and
\* CPWL2 to the values passed; each add_benchmark call adds one benchmark and
\* leaves the parameters and the earlier benchmarks unchanged.
C10_Benchmarks ==
    [][/\ (last'.call = "add_benchmark" /\ ~last'.raised) =>
            /\ Len(miner'.benchmarks) = Len(miner.benchmarks) + 1
            /\ IsPrefix(miner.benchmarks, miner'.benchmarks)
            /\ miner'.parameters = miner.parameters
       /\ (IsRun' /\ pc' = 11) => points(miner') = FivePoints
       /\ Executed(10)' => IsPrefix(FivePoints, points(miner'))
      ]_vars

\* C10 witness: the run has just left the benchmark cell with five benchmarks.
C10_Witness ==
    /\ IsRun /\ pc = 11
    /\ last.call = "add_benchmark" /\ ~last.raised
    /\ Len(miner.benchmarks) = 5

LibraryCalls == {"add_parameter", "add_benchmark", "set_morphing", "plot", "save"}

\* the step just taken is a library call of the notebook that raised
CallRaised ==
    /\ pc \in 1..Len(Notebook)
    /\ Notebook[pc].call \in LibraryCalls
    /\ trace' # trace
    /\ last'.call = Notebook[pc].call
    /\ last'.raised

\* C11: an exception raised by a library call of the notebook is neither
\* caught nor retried: the step that raises is executed once and leaves the
\* session in error at that statement with the file as it was, and a
\* session in error executes no further statement, so that it neither
\* changes the configuration nor writes the file; only the user's executing
\* a cell starts the session again.
C11_Propagates ==
    [][ /\ CallRaised =>
              /\ env'.error
              /\ pc' = pc
              /\ trace' = Append(trace, Notebook[pc].call)
              /\ file' = file
        /\ (pc >= 1 /\ env.error) =>
              /\ trace' = trace
              /\ miner' = miner
              /\ file' = file
              /\ saved' = saved
              /\ last' = last
              /\ calls'.jumps = calls.jumps + 1 ]_vars

\* add_benchmark raised in a cell executed again: the session stopped at
\* that statement, before the statements below it, with no file written
C11_Witness ==
    /\ pc \in 1..Len(Notebook)
    /\ env.error
    /\ Notebook[pc].call = "add_benchmark"
    /\ last = Call("add_benchmark", TRUE)
    /\ trace # <<>>
    /\ trace[Len(trace)] = "add_benchmark"
    /\ env.bound
    /\ Len(miner.benchmarks) >= 5
    /\ ~file.exists

\* the file holds the configuration m: its parameters, its benchmarks as
\* rows of values in the order of the parameters, and its morphing setup
Holds(f, m) ==
    /\ f.exists
    /\ f.parameter_names = [i \in 1..Len(m.parameters) |-> m.parameters[i].name]
    /\ f.parameter_transforms
         = [i \in 1..Len(m.parameters) |-> m.parameters[i].param_card_transform]
    /\ <<f.parameter_lha_blocks, f.parameter_lha_ids, f.parameter_max_power,
          f.parameter_ranges>>
         = << [i \in 1..Len(m.parameters) |-> registered(m)[i][2]],
              [i \in 1..Len(m.parameters) |-> registered(m)[i][3]],
              [i \in 1..Len(m.parameters) |-> registered(m)[i][4]],
              [i \in 1..Len(m.parameters) |-> registered(m)[i][5]] >>
    /\ f.benchmark_names = [i \in 1..Len(m.benchmarks) |-> points(m)[i][1]]
    /\ f.benchmark_values
         = [i \in 1..Len(m.benchmarks) |-> <<points(m)[i][2], points(m)[i][3]>>]
    /\ f.export_morphing = m.morpher.active
    /\ f.morphing_components = m.morpher.components
    /\ f.morphing_basis = m.morpher.basis

\* C12: a top-to-bottom run writes data/setup.h5 in its final save step
\* only: the file changes in no other step and exists only when the run is
\* done; nothing changes the configuration after set_morphing has returned,
\* and the file holds that configuration: the two parameters, the five
\* benchmarks and the new basis point, and the morphing setup.
C12_SavedLast ==
    [][ IsRun' =>
          /\ file' # file =>
                /\ pc = Len(Notebook)
                /\ Notebook[pc].call = "save"
                /\ trace' = Append(trace, "save")
                /\ ~file.exists
          /\ file'.exists =>
                /\ Done'
                /\ Holds(file', miner')
                /\ miner'.morpher.active
                /\ file'.parameter_names = <<"CWL2", "CPWL2">>
                /\ Len(file'.benchmark_names) = 6
                /\ SubSeq(file'.benchmark_values, 1, 5)
                     = [i \in 1..5 |-> <<FivePoints[i][2], FivePoints[i][3]>>]
                /\ Range(file'.morphing_components) = SixComponents
          /\ (\E i \in 1..Len(trace) : trace[i] = "set_morphing") =>
                miner' = miner ]_vars

\* the run is done and the file holds the six benchmarks and the morphing
C12_Witness ==
    /\ IsRun /\ Done
    /\ trace[Len(trace)] = "save"
    /\ Holds(file, miner)
    /\ Len(file.benchmark_values) = 6
    /\ file.export_morphing

\* the internal values 0, 0.1, ..., 1 of the range (0, 1)
UnitRange == 0..10

\* the values of the param_card entries of benchmark i of m
card_values(m, i) ==
    [j \in 1..Len(m.parameters) |-> param_card(m, m.benchmarks[i])[j].value]

\* C13: the value written to the param_card for a parameter is its
\* param_card_transform applied to the internal value theta: the factor of
\* the transform times theta, with the parameter's LHA block and id; in
\* the notebook both transforms are 16.52*theta, so that w (15.2, 0.1) gives
\* (251.104, 1.652); the transform 100*theta maps the range (0, 1) linearly
\* onto (0, 100); and the configuration keeps the internal values: writing
\* the cards leaves it unchanged, and it stores the values as passed.
C13_Transform ==
    [][ /\ last'.call = "export_cards" =>
              /\ miner' = miner
              /\ ~last'.raised
              /\ Len(last'.param_cards) = Len(miner.benchmarks)
              /\ \A i \in 1..Len(miner.benchmarks) :
                 \A j \in 1..Len(miner.parameters) :
                     LET p == miner.parameters[j]
                         theta == miner.benchmarks[i].values[p.name]
                         entry == last'.param_cards[i][j]
                     IN  /\ <<entry.lha_block, entry.lha_id>>
                              = <<p.lha_block, p.lha_id>>
                         /\ p.param_card_transform = "16.52*theta" =>
                                entry.value = 1652 * theta
                         /\ p.param_card_transform = "100*theta" =>
                                entry.value = 10000 * theta
        /\ Executed(5)' =>
              \A j \in 1..2 :
                  miner'.parameters[j].param_card_transform = "16.52*theta"
        /\ Executed(10)' =>
              /\ SubSeq(points(miner'), 1, 5) = FivePoints
              /\ card_values(miner', 2) = <<251104, 1652>>
              /\ \A i \in 1..5 :
                     card_values(miner', i)
                         = <<1652 * FivePoints[i][2], 1652 * FivePoints[i][3]>>
        /\ param_card_value("100*theta", 0) = 0
        /\ param_card_value("100*theta", 10) = 100000
        /\ \A theta \in UnitRange :
              /\ param_card_value("100*theta", theta) \in 0..100000
              /\ 10 * param_card_value("100*theta", theta)
                   = theta * param_card_value("100*theta", 10) ]_vars

\* the cards are written for a configuration in which a parameter with the
\* transform 100*theta has the internal value 0.2: the card holds 20, the
\* configuration 0.2
C13_Witness ==
    /\ last.call = "export_cards"
    /\ \E i \in 1..Len(miner.benchmarks) :
       \E j \in 1..Len(miner.parameters) :
           /\ i \in DOMAIN last.param_cards
           /\ j \in DOMAIN last.param_cards[i]
           /\ miner.parameters[j].param_card_transform = "100*theta"
           /\ miner.benchmarks[i].values[miner.parameters[j].name] = 2
           /\ last.param_cards[i][j].value = 20000

\* the step just taken executes a statement of the parameter cell, in a
\* session that has executed the cell before
InParameterCell ==
    /\ pc \in 1..Len(Notebook)
    /\ Notebook[pc].cell = 10
    /\ trace' # trace
    /\ env.bound

\* C14: executing the parameter cell again, in any state of the session,
\* rebinds miner to a fresh MadMiner: its statements return, the first
\* leaves an empty configuration, and at the end of the cell the
\* configuration holds exactly the parameters CWL2 and CPWL2, no benchmarks
\* and no morphing setup, whatever it held before.
C14_FreshMiner ==
    [][ InParameterCell =>
          /\ pc' = pc + 1
          /\ ~env'.error
          /\ Notebook[pc].call = "MadMiner" => miner' = MadMiner
          /\ Notebook[pc'].cell # 10 =>
                /\ parameter_names(miner') = <<"CWL2", "CPWL2">>
                /\ miner'.parameters
                     = (add_parameter(add_parameter(MadMiner,
                            Cell10Parameters[1]).miner,
                            Cell10Parameters[2])).miner.parameters
                /\ miner'.benchmarks = <<>>
                /\ miner'.morpher = NoMorpher ]_vars

\* the parameter cell has just been executed again in a session that had
\* added the benchmarks and set up the morphing: both are gone
C14_Witness ==
    /\ calls.jumps > 0
    /\ pc = CellStart(13)
    /\ ~env.error
    /\ \E i \in 1..Len(trace) : trace[i] = "set_morphing"
    /\ trace[Len(trace)] = "add_parameter"
    /\ parameter_names(miner) = <<"CWL2", "CPWL2">>
    /\ miner.benchmarks = <<>>
    /\ ~miner.morpher.active
====
